---- MODULE Spec2Model ----
(***************************************************************************)
(* Model of the jumanji wrapper composition layer (src/jumanji/wrappers.py)*)
(* and of the spec/validation layer (src/jumanji/specs.py,                 *)
(* src/jumanji/jax/specs.py, src/jumanji/connect4/specs.py).               *)
(***************************************************************************)
EXTENDS Integers, Sequences, FiniteSets, TLC

VARIABLES
    kind,        \* what the program constructed: "dm", "autoreset", "multi", ...
    time_limit,  \* horizon of the wrapped environment
    key,         \* JumanjiToDMEnvWrapper._key
    state,       \* JumanjiToDMEnvWrapper._state, or the state threaded by the caller
    ret,         \* timestep returned by the last call (None before any call)
    op,          \* last operation called: "init", "reset", "step"
    in_key,      \* key handed to the wrapped environment's reset by the last reset
    in_state,    \* state the last step was called on
    in_action,   \* action the last step was called with
    prev_type,   \* step_type returned by the call before the last one
    exc          \* exception raised by the last call ("none" if it returned)

VARIABLES
    seed_arg,    \* seed argument of the last JumanjiToGymWrapper.reset
    trace        \* the seed last used to seed the gym wrapper and the calls since

gvars == <<seed_arg, trace>>

wvars == <<kind, time_limit, key, state, ret, op, in_key, in_state, in_action,
           prev_type, exc, gvars>>

VARIABLES
    spec,        \* the spec object under test (None when none was constructed)
    vop,         \* last spec operation: constructor name, "validate", ...
    vargs,       \* arguments of the last spec operation
    vexc,        \* exception raised by the last spec operation
    vout         \* value returned by the last spec operation

svars == <<spec, vop, vargs, vexc, vout>>

vars == <<wvars, svars>>

----------------------------------------------------------------------------
(* Bounds *)
NumAgents  == 2
MaxTimeLimit == 2
MaxSteps   == 3
MaxKeyLen  == 4
MaxRank    == 2
MaxDim     == 2
MaxSize    == 2
MaxBound   == 1
MaxNumValues == 2
MaxTrace   == 3
MaxEnvs    == 2
MaxVmapSteps == 2
MaxNodes   == 4
MaxEdges   == 3
MaxGenAgents == 2
MaxNodesPerAgent == 2
MaxGenSteps == 2
MazeRows   == 2
MazeCols   == 2
MaxWalls   == 1
MaxStepLimit == 4

----------------------------------------------------------------------------
(* Option values: None is the empty tuple, Some(x) a one-element tuple *)
None == <<>>
Some(x) == <<x>>

(* the outcome of a call: a returned value or a raised exception *)
Ok(v)     == [exc |-> "none", value |-> Some(v)]
Raise(e)  == [exc |-> e, value |-> None]

FIRST == "FIRST"
MID   == "MID"
LAST  == "LAST"

Agents == 1..NumAgents
Actions == [Agents -> 0..1]

(* jax.random.split(key): two fresh keys, distinct from each other and from key *)
SplitFirst(k)  == Append(k, 0)
SplitSecond(k) == Append(k, 1)
PRNGKey(seed)  == <<seed>>

----------------------------------------------------------------------------
(* The wrapped multi-agent environment *)

restart(observation) ==
    [step_type |-> FIRST,
     reward |-> [a \in Agents |-> 0],
     discount |-> [a \in Agents |-> 1],
     observation |-> observation,
     extras |-> None]

EnvReset(k) ==
    LET generator_key == SplitFirst(k)
        st == [key |-> SplitSecond(k), step |-> 0,
               done |-> [a \in Agents |-> FALSE], grid |-> generator_key]
    IN [state |-> st,
        timestep |-> restart([grid |-> generator_key, step |-> 0])]

EnvStep(st, action) ==
    LET next_step == st.step + 1
        done == [a \in Agents |->
                    st.done[a] \/ action[a] = 1 \/ next_step >= time_limit]
        reward == [a \in Agents |->
                    IF action[a] = 1 /\ ~st.done[a] THEN 1 ELSE 0]
        discount == [a \in Agents |-> IF done[a] THEN 0 ELSE 1]
        all_done == \A a \in Agents : done[a]
    IN [state |-> [st EXCEPT !.step = next_step, !.done = done],
        timestep |->
            [step_type |-> IF all_done THEN LAST ELSE MID,
             reward |-> reward,
             discount |-> discount,
             observation |-> [grid |-> st.grid, step |-> next_step],
             extras |-> Some(Cardinality({a \in Agents : done[a]}))]]

----------------------------------------------------------------------------
(* JumanjiToDMEnvWrapper *)

dm_env_restart(observation) ==
    [step_type |-> FIRST, reward |-> None, discount |-> None,
     observation |-> observation]

dm_env_TimeStep(timestep) ==
    [step_type |-> timestep.step_type,
     reward |-> Some(timestep.reward),
     discount |-> Some(timestep.discount),
     observation |-> timestep.observation]

RetType == IF ret = None THEN "NONE" ELSE ret[1].step_type

DMReset_keep_state ==
    /\ kind = "dm"
    /\ Len(key) + 2 <= MaxKeyLen
    /\ LET reset_key == SplitFirst(key)
           r == EnvReset(reset_key)
       IN /\ key' = SplitSecond(key)
          /\ state' = IF state = None THEN Some(r.state) ELSE state
          /\ ret' = Some(dm_env_restart(r.timestep.observation))
          /\ in_key' = Some(reset_key)
    /\ op' = "reset"
    /\ exc' = "none"
    /\ prev_type' = RetType
    /\ UNCHANGED <<kind, time_limit, in_state, in_action, gvars, svars>>

DMReset ==
    /\ kind = "dm"
    /\ Len(key) + 2 <= MaxKeyLen
    /\ LET reset_key == SplitFirst(key)
           r == EnvReset(reset_key)
       IN /\ key' = SplitSecond(key)
          /\ state' = Some(r.state)
          /\ ret' = Some(dm_env_restart(r.timestep.observation))
          /\ in_key' = Some(reset_key)
    /\ op' = "reset"
    /\ exc' = "none"
    /\ prev_type' = RetType
    /\ UNCHANGED <<kind, time_limit, in_state, in_action, gvars, svars>>

DMStep ==
    /\ kind = "dm"
    /\ \E action \in Actions :
        /\ in_action' = Some(action)
        /\ in_state' = state
        /\ IF state = None
           THEN \* reading self._state raises AttributeError
                /\ exc' = "AttributeError"
                /\ UNCHANGED <<state, ret>>
           ELSE /\ state[1].step < MaxSteps
                /\ LET r == EnvStep(state[1], action)
                   IN /\ state' = Some(r.state)
                      /\ ret' = Some(dm_env_TimeStep(r.timestep))
                /\ exc' = "none"
    /\ op' = "step"
    /\ prev_type' = RetType
    /\ UNCHANGED <<kind, time_limit, key, in_key, gvars, svars>>

----------------------------------------------------------------------------
(* AutoResetWrapper *)

AutoResetWrapper_auto_reset_whole(st, timestep) ==
    LET r == EnvReset(st.key)
    IN [state |-> r.state, timestep |-> r.timestep]

AutoResetWrapper_auto_reset(st, timestep) ==
    LET r == EnvReset(st.key)
    IN [state |-> r.state,
        timestep |-> [timestep EXCEPT
                        !.observation = r.timestep.observation,
                        !.step_type = r.timestep.step_type]]

AutoResetWrapper_step(st, action) ==
    LET r == EnvStep(st, action)
    IN IF r.timestep.step_type = LAST
       THEN AutoResetWrapper_auto_reset(r.state, r.timestep)
       ELSE r

Wrapper_reset(k) == EnvReset(k)

RootKeys == {PRNGKey(0), PRNGKey(1)}

ARReset ==
    /\ kind = "autoreset"
    /\ \E k \in RootKeys :
        LET r == Wrapper_reset(k)
        IN /\ state' = Some(r.state)
           /\ ret' = Some(r.timestep)
           /\ in_key' = Some(k)
    /\ op' = "reset"
    /\ exc' = "none"
    /\ prev_type' = RetType
    /\ UNCHANGED <<kind, time_limit, key, in_state, in_action, gvars, svars>>

ARStep ==
    /\ kind = "autoreset"
    /\ state # None
    /\ Len(state[1].key) < MaxKeyLen
    /\ \E action \in Actions :
        LET r == AutoResetWrapper_step(state[1], action)
        IN /\ state' = Some(r.state)
           /\ ret' = Some(r.timestep)
           /\ in_action' = Some(action)
    /\ in_state' = state
    /\ op' = "step"
    /\ exc' = "none"
    /\ prev_type' = RetType
    /\ UNCHANGED <<kind, time_limit, key, in_key, gvars, svars>>

----------------------------------------------------------------------------
(* MultiToSingleWrapper *)

RECURSIVE SumTo(_, _)
SumTo(f, n) == IF n = 0 THEN 0 ELSE f[n] + SumTo(f, n - 1)
jnp_sum(f) == SumTo(f, NumAgents)

jnp_max(f) == CHOOSE m \in {f[a] : a \in Agents} : \A a \in Agents : f[a] <= m

jnp_min(f) == CHOOSE m \in {f[a] : a \in Agents} : \A a \in Agents : m <= f[a]

reward_aggregator(r)   == jnp_sum(r)

discount_aggregator_min(d) == jnp_min(d)

discount_aggregator(d) == jnp_max(d)

MultiToSingleWrapper_aggregate_timestep(timestep) ==
    [step_type |-> timestep.step_type,
     observation |-> timestep.observation,
     reward |-> reward_aggregator(timestep.reward),
     discount |-> discount_aggregator(timestep.discount)]

MultiToSingleWrapper_reset(k) ==
    LET r == EnvReset(k)
    IN [state |-> r.state,
        timestep |-> MultiToSingleWrapper_aggregate_timestep(r.timestep)]

MultiToSingleWrapper_step(st, action) ==
    LET r == EnvStep(st, action)
    IN [state |-> r.state,
        timestep |-> MultiToSingleWrapper_aggregate_timestep(r.timestep)]

MSReset ==
    /\ kind = "multi"
    /\ \E k \in RootKeys :
        LET r == MultiToSingleWrapper_reset(k)
        IN /\ state' = Some(r.state)
           /\ ret' = Some(r.timestep)
           /\ in_key' = Some(k)
    /\ op' = "reset"
    /\ exc' = "none"
    /\ prev_type' = RetType
    /\ UNCHANGED <<kind, time_limit, key, in_state, in_action, gvars, svars>>

MSStep ==
    /\ kind = "multi"
    /\ state # None
    /\ state[1].step < MaxSteps
    /\ \E action \in Actions :
        LET r == MultiToSingleWrapper_step(state[1], action)
        IN /\ state' = Some(r.state)
           /\ ret' = Some(r.timestep)
           /\ in_action' = Some(action)
    /\ in_state' = state
    /\ op' = "step"
    /\ exc' = "none"
    /\ prev_type' = RetType
    /\ UNCHANGED <<kind, time_limit, key, in_key, gvars, svars>>

----------------------------------------------------------------------------
(* Connector: the environment itself, called without a wrapper *)

(* the body of Connector.step is the single statement pass: the call returns
   None, neither a state nor a timestep *)
Connector_step(st, action) == None

ConnectorReset ==
    /\ kind = "connector"
    /\ \E k \in RootKeys :
        LET r == EnvReset(k)
        IN /\ state' = Some(r.state)
           /\ ret' = Some(r.timestep)
           /\ in_key' = Some(k)
    /\ op' = "reset"
    /\ exc' = "none"
    /\ prev_type' = RetType
    /\ UNCHANGED <<kind, time_limit, key, in_state, in_action, gvars, svars>>

(* result = env.step(state, action) *)
ConnectorStep ==
    /\ kind = "connector"
    /\ state # None
    /\ \E action \in Actions :
        /\ ret' = Connector_step(state[1], action)
        /\ in_action' = Some(action)
    /\ in_state' = state
    /\ op' = "step"
    /\ exc' = "none"
    /\ prev_type' = RetType
    /\ UNCHANGED <<kind, time_limit, key, state, in_key, gvars, svars>>

----------------------------------------------------------------------------
(* JumanjiToGymWrapper around MultiToSingleWrapper(env) *)

Seeds == {k[1] : k \in RootKeys}

(* TimeStep.extras, None when the timestep was built without extras *)
timestep_extras(timestep) ==
    IF "extras" \in DOMAIN timestep THEN timestep.extras ELSE None

(* a container with __dict__ becomes a dict with one converted entry per
   attribute *)
jumanji_to_gym_obs(observation) ==
    [dict |-> [k \in DOMAIN observation |-> observation[k]]]

(* the wrapper object: its _key and _state *)
JumanjiToGymWrapper_init(seed) == [key |-> PRNGKey(seed), state |-> None]

JumanjiToGymWrapper_seed(w, seed) == [w EXCEPT !.key = PRNGKey(seed)]

(* the jitted reset and step closures of __init__ *)
JumanjiToGymWrapper__reset(k) ==
    LET r == MultiToSingleWrapper_reset(k)
    IN [state |-> r.state, obs |-> r.timestep.observation,
        extras |-> timestep_extras(r.timestep)]

JumanjiToGymWrapper__step(st, action) ==
    LET r == MultiToSingleWrapper_step(st, action)
    IN [state |-> r.state, obs |-> r.timestep.observation,
        reward |-> r.timestep.reward,
        done |-> (r.timestep.step_type = LAST),
        extras |-> timestep_extras(r.timestep)]

JumanjiToGymWrapper_reset_unseeded(w, seed, return_info) ==
    LET w1 == w
        k == SplitFirst(w1.key)
        r == JumanjiToGymWrapper__reset(k)
    IN [w |-> [key |-> SplitSecond(w1.key), state |-> Some(r.state)],
        reset_key |-> k,
        ret |-> [observation |-> jumanji_to_gym_obs(r.obs),
                 info |-> IF return_info THEN Some(r.extras) ELSE None]]

JumanjiToGymWrapper_reset(w, seed, return_info) ==
    LET w1 == IF seed # None THEN JumanjiToGymWrapper_seed(w, seed[1]) ELSE w
        k == SplitFirst(w1.key)
        r == JumanjiToGymWrapper__reset(k)
    IN [w |-> [key |-> SplitSecond(w1.key), state |-> Some(r.state)],
        reset_key |-> k,
        ret |-> [observation |-> jumanji_to_gym_obs(r.obs),
                 info |-> IF return_info THEN Some(r.extras) ELSE None]]

(* defined when the wrapper holds a state *)
JumanjiToGymWrapper_step(w, action) ==
    LET r == JumanjiToGymWrapper__step(w.state[1], action)
    IN [w |-> [w EXCEPT !.state = Some(r.state)],
        ret |-> [observation |-> jumanji_to_gym_obs(r.obs),
                 reward |-> r.reward,
                 terminated |-> r.done,
                 info |-> r.extras]]

GymReset ==
    /\ kind = "gym"
    /\ \E seed \in {None} \cup {Some(s) : s \in Seeds}, return_info \in BOOLEAN :
        /\ seed = None => (Len(key) + 1 <= MaxKeyLen /\ Len(trace.ops) < MaxTrace)
        /\ LET r == JumanjiToGymWrapper_reset([key |-> key, state |-> state],
                                              seed, return_info)
           IN /\ key' = r.w.key
              /\ state' = r.w.state
              /\ ret' = Some(r.ret)
              /\ in_key' = Some(r.reset_key)
        /\ seed_arg' = seed
        /\ trace' = IF seed # None
                    THEN [seed |-> seed[1],
                          ops |-> <<[op |-> "reset", return_info |-> return_info]>>]
                    ELSE [trace EXCEPT !.ops =
                            Append(@, [op |-> "reset", return_info |-> return_info])]
    /\ op' = "reset"
    /\ exc' = "none"
    /\ UNCHANGED <<kind, time_limit, in_state, in_action, prev_type, svars>>

GymStep ==
    /\ kind = "gym"
    /\ Len(trace.ops) < MaxTrace
    /\ \E action \in Actions :
        /\ in_action' = Some(action)
        /\ in_state' = state
        /\ IF state = None
           THEN \* the wrapped step is handed None instead of a state
                /\ exc' = "AttributeError"
                /\ UNCHANGED <<state, ret, trace>>
           ELSE /\ LET r == JumanjiToGymWrapper_step([key |-> key, state |-> state],
                                                     action)
                   IN /\ state' = r.w.state
                      /\ ret' = Some(r.ret)
                /\ trace' = [trace EXCEPT !.ops =
                                Append(@, [op |-> "step", action |-> action])]
                /\ exc' = "none"
    /\ op' = "step"
    /\ UNCHANGED <<kind, time_limit, key, in_key, prev_type, seed_arg, svars>>

----------------------------------------------------------------------------
(* VmapWrapper: batched states and timesteps carry a leading axis on every
   leaf *)

(* jnp.stack of the leaves of a sequence of States / TimeSteps *)
StackStates(sts) ==
    [key  |-> [i \in DOMAIN sts |-> sts[i].key],
     step |-> [i \in DOMAIN sts |-> sts[i].step],
     done |-> [i \in DOMAIN sts |-> sts[i].done],
     grid |-> [i \in DOMAIN sts |-> sts[i].grid]]

StackTimeSteps(ts) ==
    [step_type |-> [i \in DOMAIN ts |-> ts[i].step_type],
     reward |-> [i \in DOMAIN ts |-> ts[i].reward],
     discount |-> [i \in DOMAIN ts |-> ts[i].discount],
     observation |-> [grid |-> [i \in DOMAIN ts |-> ts[i].observation.grid],
                      step |-> [i \in DOMAIN ts |-> ts[i].observation.step]],
     extras |-> IF \A i \in DOMAIN ts : ts[i].extras = None THEN None
                ELSE Some([i \in DOMAIN ts |-> ts[i].extras[1]])]

(* the slice at index i of the leading axis *)
StateAt(bst, i) ==
    [key |-> bst.key[i], step |-> bst.step[i], done |-> bst.done[i],
     grid |-> bst.grid[i]]

TimeStepAt(bts, i) ==
    [step_type |-> bts.step_type[i],
     reward |-> bts.reward[i],
     discount |-> bts.discount[i],
     observation |-> [grid |-> bts.observation.grid[i],
                      step |-> bts.observation.step[i]],
     extras |-> IF bts.extras = None THEN None ELSE Some(bts.extras[1][i])]

(* size of the leading axis *)
BatchSize(bst) == Len(bst.step)

VmapWrapper_reset_first_key(keys) ==
    LET r == [i \in DOMAIN keys |-> EnvReset(keys[1])]
    IN [state |-> StackStates([i \in DOMAIN keys |-> r[i].state]),
        timestep |-> StackTimeSteps([i \in DOMAIN keys |-> r[i].timestep])]

(* jax.vmap(self._env.reset)(key) *)
VmapWrapper_reset(keys) ==
    LET r == [i \in DOMAIN keys |-> EnvReset(keys[i])]
    IN [state |-> StackStates([i \in DOMAIN keys |-> r[i].state]),
        timestep |-> StackTimeSteps([i \in DOMAIN keys |-> r[i].timestep])]

(* jax.vmap(self._env.step)(state, action): the mapped axes must agree *)
VmapWrapper_step(bst, actions) ==
    IF BatchSize(bst) # Len(actions) THEN Raise("ValueError")
    ELSE LET r == [i \in DOMAIN actions |-> EnvStep(StateAt(bst, i), actions[i])]
         IN Ok([state |-> StackStates([i \in DOMAIN actions |-> r[i].state]),
                timestep |-> StackTimeSteps([i \in DOMAIN actions |-> r[i].timestep])])

Batches(S) == UNION {[1..n -> S] : n \in 1..MaxEnvs}

(* per-environment actions handed to the batched step: all agents wait, or
   all agents finish *)
VmapActions == {[a \in Agents |-> v] : v \in 0..1}

(* the program resets the batch once and then steps it *)
VmapReset ==
    /\ kind = "vmap"
    /\ state = None
    /\ \E keys \in Batches(RootKeys) :
        LET r == VmapWrapper_reset(keys)
        IN /\ state' = Some(r.state)
           /\ ret' = Some(r.timestep)
           /\ in_key' = Some(keys)
    /\ op' = "reset"
    /\ exc' = "none"
    /\ UNCHANGED <<kind, time_limit, key, in_state, in_action, prev_type,
                   gvars, svars>>

VmapStep ==
    /\ kind = "vmap"
    /\ state # None
    /\ \A i \in 1..BatchSize(state[1]) : state[1].step[i] < MaxVmapSteps
    /\ \E actions \in Batches(VmapActions) :
        LET r == VmapWrapper_step(state[1], actions)
        IN /\ exc' = r.exc
           /\ IF r.exc = "none"
              THEN /\ state' = Some(r.value[1].state)
                   /\ ret' = Some(r.value[1].timestep)
              ELSE UNCHANGED <<state, ret>>
           /\ in_action' = Some(actions)
    /\ in_state' = state
    /\ op' = "step"
    /\ UNCHANGED <<kind, time_limit, key, in_key, prev_type, gvars, svars>>

----------------------------------------------------------------------------
SpecsIdle ==
    /\ spec = None
    /\ vop = "init"
    /\ vargs = None
    /\ vexc = "none"
    /\ vout = None

Init ==
    /\ SpecsIdle
    /\ kind \in {"dm", "autoreset", "multi", "connector", "gym",
                 "vmap"}
    /\ time_limit \in 1..MaxTimeLimit
    /\ key \in IF kind \in {"dm", "gym"} THEN RootKeys ELSE {None}
    /\ seed_arg = None
    /\ trace = IF kind = "gym" THEN [seed |-> key[1], ops |-> <<>>] ELSE None
    /\ state = None          \* self._state is annotated, never assigned
    /\ ret = None
    /\ op = "init"
    /\ in_key = None
    /\ in_state = None
    /\ in_action = None
    /\ prev_type = "NONE"
    /\ exc = "none"

Next ==
    \/ DMReset
    \/ DMStep
    \/ ARReset
    \/ ARStep
    \/ MSReset
    \/ MSStep
    \/ ConnectorReset
    \/ ConnectorStep
    \/ GymReset
    \/ GymStep
    \/ VmapReset
    \/ VmapStep

Spec == Init /\ [][Next]_vars

----------------------------------------------------------------------------
(* Claims about the wrappers, checked under Spec *)

InnerStep == EnvStep(in_state[1], in_action[1])

(* C1: whenever the wrapped environment's step returns a LAST timestep,
   AutoResetWrapper.step returns the state of the wrapped reset called with
   the key of the post-step state, the reset observation and step_type FIRST,
   and the reward, discount and extras of the terminal transition. *)
C1_AutoResetTerminal ==
    (kind = "autoreset" /\ op = "step" /\ InnerStep.timestep.step_type = LAST) =>
        LET r == EnvReset(InnerStep.state.key)
        IN /\ state = Some(r.state)
           /\ ret[1].observation = r.timestep.observation
           /\ ret[1].step_type = FIRST
           /\ ret[1].reward = InnerStep.timestep.reward
           /\ ret[1].discount = InnerStep.timestep.discount
           /\ ret[1].extras = InnerStep.timestep.extras

C1_Witness ==
    /\ kind = "autoreset" /\ op = "step"
    /\ InnerStep.timestep.step_type = LAST
    /\ \E a \in Agents : InnerStep.timestep.reward[a] = 1
    /\ ret[1].step_type = FIRST

(* C2: if the previous call to JumanjiToDMEnvWrapper.step returned a LAST
   timestep, the next call to step returns the first timestep of a fresh
   episode (step_type FIRST, no reward, no discount, step counter 0). *)
C2_StepAfterLastRestarts ==
    (kind = "dm" /\ op = "step" /\ prev_type = LAST) =>
        /\ exc = "none"
        /\ ret[1].step_type = FIRST
        /\ ret[1].reward = None
        /\ ret[1].discount = None
        /\ state[1].step = 0

(* C3: JumanjiToDMEnvWrapper.step called before any reset does not fail and
   returns the first timestep of a new sequence. *)
C3_StepBeforeResetRestarts ==
    (kind = "dm" /\ op = "step" /\ in_state = None) =>
        /\ exc = "none"
        /\ ret # None
        /\ ret[1].step_type = FIRST
        /\ state # None

(* C4: JumanjiToDMEnvWrapper.reset, at any point, returns a FIRST timestep
   with reward None and discount None carrying the wrapped reset observation,
   and replaces the held state with the reset state. *)
C4_DMReset ==
    (kind = "dm" /\ op = "reset") =>
        LET r == EnvReset(in_key[1])
        IN /\ ret = Some([step_type |-> FIRST, reward |-> None,
                          discount |-> None,
                          observation |-> r.timestep.observation])
           /\ state = Some(r.state)
           /\ exc = "none"

C4_Witness ==
    /\ kind = "dm" /\ op = "reset" /\ prev_type = LAST
    /\ state[1].step = 0

(* C5: MultiToSingleWrapper.reset and step return the wrapped state,
   step_type and observation unchanged, the sum of the per-agent rewards and
   the maximum of the per-agent discounts; the aggregated discount is
   non-zero whenever some agent's discount is non-zero. *)
C5_MultiToSingle ==
    (kind = "multi" /\ op \in {"reset", "step"}) =>
        LET inner == IF op = "reset" THEN EnvReset(in_key[1]) ELSE InnerStep
            t == inner.timestep
        IN /\ state = Some(inner.state)
           /\ ret[1].step_type = t.step_type
           /\ ret[1].observation = t.observation
           /\ ret[1].reward = jnp_sum(t.reward)
           /\ ret[1].discount = jnp_max(t.discount)
           /\ (\E a \in Agents : t.discount[a] # 0) => ret[1].discount # 0

C5_Witness ==
    /\ kind = "multi" /\ op = "step"
    /\ \E a, b \in Agents :
          InnerStep.timestep.discount[a] = 0 /\ InnerStep.timestep.discount[b] = 1
    /\ ret[1].discount = 1
    /\ ret[1].reward = 1

----------------------------------------------------------------------------
(* Arrays: a shape, a dtype and one element per index tuple *)

DTypes == {"int8", "int32", "float32", "bool"}

IsIntegral(dtype) == dtype \in {"int8", "int32"}

IntBits(dtype) == IF dtype = "int8" THEN 8 ELSE 32

(* conversion of a Python integer to an element of dtype; the numbers of the
   model all lie within the 32-bit range, where the conversion to int32 and
   to float32 keeps them *)
CastTo(v, dtype) ==
    IF dtype = "bool" THEN (IF v # 0 THEN 1 ELSE 0)
    ELSE IF dtype = "int8"
         THEN LET half == 2 ^ (IntBits(dtype) - 1)
              IN ((v + half) % (2 * half)) - half
         ELSE v

RECURSIVE Prod(_)
Prod(shape) == IF shape = <<>> THEN 1 ELSE Head(shape) * Prod(Tail(shape))

RECURSIVE ShapesOfRank(_)
ShapesOfRank(n) ==
    IF n = 0 THEN {<<>>}
    ELSE {<<d>> \o t : d \in 1..MaxDim, t \in ShapesOfRank(n - 1)}

Shapes ==
    {sh \in UNION {ShapesOfRank(n) : n \in 0..MaxRank} : Prod(sh) <= MaxSize}

RECURSIVE Indices(_)
Indices(shape) ==
    IF shape = <<>> THEN {<<>>}
    ELSE {<<i>> \o t : i \in 1..Head(shape), t \in Indices(Tail(shape))}

(* jnp.asarray(x, dtype) of a (nested) sequence of Python numbers *)
jnp_asarray(x, dtype) ==
    [shape |-> x.shape, dtype |-> dtype,
     data |-> [idx \in Indices(x.shape) |-> CastTo(x.data[idx], dtype)]]

CanBroadcast(from, to) ==
    /\ Len(from) <= Len(to)
    /\ \A i \in 1..Len(from) :
          LET d == from[i]
              t == to[Len(to) - Len(from) + i]
          IN d = t \/ d = 1

(* jnp.broadcast_to(a, shape), defined when CanBroadcast(a.shape, shape) *)
jnp_broadcast_to(a, shape) ==
    LET off == Len(shape) - Len(a.shape)
    IN [shape |-> shape, dtype |-> a.dtype,
        data |-> [idx \in Indices(shape) |->
                    a.data[[i \in 1..Len(a.shape) |->
                               IF a.shape[i] = 1 THEN 1 ELSE idx[off + i]]]]]

jnp_zeros(shape, dtype) ==
    [shape |-> shape, dtype |-> dtype, data |-> [idx \in Indices(shape) |-> 0]]

jnp_ones(shape, dtype) ==
    [shape |-> shape, dtype |-> dtype, data |-> [idx \in Indices(shape) |-> 1]]

(* shape of the result of an elementwise operation on compatible shapes *)
BroadcastShape(s1, s2) ==
    LET n == IF Len(s1) >= Len(s2) THEN Len(s1) ELSE Len(s2)
        dim(sh, i) == IF i > n - Len(sh) THEN sh[i - (n - Len(sh))] ELSE 1
    IN [i \in 1..n |-> IF dim(s1, i) >= dim(s2, i) THEN dim(s1, i) ELSE dim(s2, i)]

(* a * b for arrays of the same dtype *)
jnp_multiply(a, b) ==
    LET sh == BroadcastShape(a.shape, b.shape)
        ba == jnp_broadcast_to(a, sh)
        bb == jnp_broadcast_to(b, sh)
    IN [shape |-> sh, dtype |-> a.dtype,
        data |-> [idx \in Indices(sh) |->
                    CastTo(ba.data[idx] * bb.data[idx], a.dtype)]]

(* (a < b).any() for a and b with compatible shapes *)
AnyLess(a, b) ==
    LET sh == BroadcastShape(a.shape, b.shape)
        ba == jnp_broadcast_to(a, sh)
        bb == jnp_broadcast_to(b, sh)
    IN \E idx \in Indices(sh) : ba.data[idx] < bb.data[idx]

----------------------------------------------------------------------------
(* specs.Array, specs.BoundedArray, specs.DiscreteArray *)

Array_init(shape, dtype) ==
    Ok([type |-> "Array", shape |-> shape, dtype |-> dtype,
        minimum |-> None, maximum |-> None, num_values |-> None])

Array_validate_shape_only(sp, value) ==
    IF value.shape # sp.shape THEN Raise("ValueError")
    ELSE Ok(value)

Array_validate(sp, value) ==
    IF value.shape # sp.shape THEN Raise("ValueError")
    ELSE IF value.dtype # sp.dtype THEN Raise("ValueError")
    ELSE Ok(value)

Array_generate_value(sp) == jnp_zeros(sp.shape, sp.dtype)

AllLess(a, b) ==
    LET sh == BroadcastShape(a.shape, b.shape)
        ba == jnp_broadcast_to(a, sh)
        bb == jnp_broadcast_to(b, sh)
    IN \A idx \in Indices(sh) : ba.data[idx] < bb.data[idx]

BoundedArray_init_all(shape, dtype, minimum, maximum) ==
    LET base == Array_init(shape, dtype).value[1]
        mn == jnp_asarray(minimum, dtype)
        mx == jnp_asarray(maximum, dtype)
    IN IF ~CanBroadcast(mn.shape, shape) THEN Raise("ValueError")
       ELSE IF ~CanBroadcast(mx.shape, shape) THEN Raise("ValueError")
       ELSE IF AllLess(jnp_broadcast_to(mx, shape), jnp_broadcast_to(mn, shape))
            THEN Raise("ValueError")
       ELSE Ok([base EXCEPT !.type = "BoundedArray",
                            !.minimum = Some(mn), !.maximum = Some(mx)])

BoundedArray_init(shape, dtype, minimum, maximum) ==
    LET base == Array_init(shape, dtype).value[1]
        mn == jnp_asarray(minimum, dtype)
        mx == jnp_asarray(maximum, dtype)
    IN IF ~CanBroadcast(mn.shape, shape) THEN Raise("ValueError")
       ELSE IF ~CanBroadcast(mx.shape, shape) THEN Raise("ValueError")
       ELSE IF AnyLess(jnp_broadcast_to(mx, shape), jnp_broadcast_to(mn, shape))
            THEN Raise("ValueError")
       ELSE Ok([base EXCEPT !.type = "BoundedArray",
                            !.minimum = Some(mn), !.maximum = Some(mx)])

BoundedArray_validate_exclusive_max(sp, value) ==
    LET r == Array_validate(sp, value)
    IN IF r.exc # "none" THEN r
       ELSE IF AnyLess(value, sp.minimum[1]) \/ ~AllLess(value, sp.maximum[1])
            THEN Raise("ValueError")
       ELSE Ok(value)

BoundedArray_validate(sp, value) ==
    LET r == Array_validate(sp, value)
    IN IF r.exc # "none" THEN r
       ELSE IF AnyLess(value, sp.minimum[1]) \/ AnyLess(sp.maximum[1], value)
            THEN Raise("ValueError")
       ELSE Ok(value)

BoundedArray_generate_value_zeros(sp) == jnp_zeros(sp.shape, sp.dtype)

BoundedArray_generate_value(sp) ==
    jnp_multiply(jnp_ones(sp.shape, sp.dtype), sp.minimum[1])

Scalar(v) == [shape |-> <<>>, data |-> [idx \in {<<>>} |-> v]]

(* num_values is a Python number: [kind |-> "int" or "float", val |-> n] *)
DiscreteArray_init(num_values, dtype) ==
    IF num_values.val <= 0 \/ num_values.kind # "int" THEN Raise("ValueError")
    ELSE IF ~IsIntegral(dtype) THEN Raise("ValueError")
    ELSE LET maximum == num_values.val - 1
             r == BoundedArray_init(<<>>, dtype, Scalar(0), Scalar(maximum))
         IN IF r.exc # "none" THEN r
            ELSE Ok([r.value[1] EXCEPT !.type = "DiscreteArray",
                                       !.num_values = Some(num_values.val)])

----------------------------------------------------------------------------
(* connect4 ObservationSpec: a nested spec with two Array fields *)

ObservationSpec_init(board_obs, action_mask) ==
    Ok([type |-> "ObservationSpec", board_obs |-> board_obs,
        action_mask |-> action_mask])

LeafValidate(sp, value) ==
    IF sp.type = "Array" THEN Array_validate(sp, value)
    ELSE BoundedArray_validate(sp, value)

LeafGenerateValue(sp) ==
    IF sp.type = "Array" THEN Array_generate_value(sp)
    ELSE BoundedArray_generate_value(sp)

(* value is None or Some(Observation) *)
ObservationSpec_validate(sp, value) ==
    IF value = None THEN Raise("AttributeError")
    ELSE LET b == LeafValidate(sp.board_obs, value[1].board)
         IN IF b.exc # "none" THEN Raise(b.exc)
            ELSE LET m == LeafValidate(sp.action_mask, value[1].action_mask)
                 IN IF m.exc # "none" THEN Raise(m.exc)
                    ELSE Ok([board |-> b.value[1], action_mask |-> m.value[1]])

ObservationSpec_generate_value(sp) ==
    [board |-> LeafGenerateValue(sp.board_obs),
     action_mask |-> LeafGenerateValue(sp.action_mask)]

----------------------------------------------------------------------------
(* replace: a copy of the spec with some constructor arguments replaced *)

(* keyword names a call of replace may carry; a kwargs dict is a function
   from these names to None (absent) or Some(value) *)
KwNames ==
    {"shape", "dtype", "minimum", "maximum", "num_values",
     "board_obs", "action_mask"}

NoKw == [n \in KwNames |-> None]

Named(kw) == {n \in KwNames : kw[n] # None}

(* parameters of type(self).__init__ other than self (name is not modelled) *)
ConstructorParams(type) ==
    CASE type = "Array"           -> {"shape", "dtype"}
      [] type = "BoundedArray"    -> {"shape", "dtype", "minimum", "maximum"}
      [] type = "DiscreteArray"   -> {"num_values", "dtype"}
      [] type = "ObservationSpec" -> {"board_obs", "action_mask"}

(* {name: getattr(self, name) for name in params.keys()} *)
Array_get_constructor_kwargs(sp) ==
    CASE sp.type = "Array" ->
           [NoKw EXCEPT !["shape"] = Some(sp.shape), !["dtype"] = Some(sp.dtype)]
      [] sp.type = "BoundedArray" ->
           [NoKw EXCEPT !["shape"] = Some(sp.shape), !["dtype"] = Some(sp.dtype),
                        !["minimum"] = sp.minimum, !["maximum"] = sp.maximum]
      [] sp.type = "DiscreteArray" ->
           [NoKw EXCEPT !["num_values"] =
                            Some([kind |-> "int", val |-> sp.num_values[1]]),
                        !["dtype"] = Some(sp.dtype)]

(* all_kwargs.update(kwargs) *)
dict_update(all_kwargs, kwargs) ==
    [n \in KwNames |-> IF kwargs[n] # None THEN kwargs[n] ELSE all_kwargs[n]]

(* calling type(self) with the keyword arguments all_kwargs *)
Construct_type(type, kw) ==
    IF ~(Named(kw) \subseteq ConstructorParams(type)) THEN Raise("TypeError")
    ELSE CASE type = "Array" ->
                Array_init(kw["shape"][1], kw["dtype"][1])
           [] type = "BoundedArray" ->
                BoundedArray_init(kw["shape"][1], kw["dtype"][1],
                                  kw["minimum"][1], kw["maximum"][1])
           [] type = "DiscreteArray" ->
                DiscreteArray_init(kw["num_values"][1], kw["dtype"][1])
           [] type = "ObservationSpec" ->
                ObservationSpec_init(kw["board_obs"][1], kw["action_mask"][1])

Array_replace_defaults(sp, kwargs) ==
    Construct_type(sp.type, dict_update(Array_get_constructor_kwargs(sp), NoKw))

Array_replace(sp, kwargs) ==
    Construct_type(sp.type, dict_update(Array_get_constructor_kwargs(sp), kwargs))

ObservationSpec_replace(sp, kwargs) ==
    LET all_kwargs == [NoKw EXCEPT !["board_obs"] = Some(sp.board_obs),
                                   !["action_mask"] = Some(sp.action_mask)]
    IN Construct_type("ObservationSpec", dict_update(all_kwargs, kwargs))

----------------------------------------------------------------------------
(* Conversions to dm_env specs and gym spaces *)

(* the classes a spec of the given type is an instance of *)
Bases(type) ==
    CASE type = "DiscreteArray"   -> {"DiscreteArray", "BoundedArray", "Array", "Spec"}
      [] type = "BoundedArray"    -> {"BoundedArray", "Array", "Spec"}
      [] type = "Array"           -> {"Array", "Spec"}
      [] type = "ObservationSpec" -> {"ObservationSpec", "Spec"}

isinstance(sp, cls) == cls \in Bases(sp.type)

dm_env_specs_DiscreteArray(num_values, dtype) ==
    [type |-> "dm_env.specs.DiscreteArray", num_values |-> num_values,
     dtype |-> dtype]

dm_env_specs_BoundedArray(shape, dtype, minimum, maximum) ==
    [type |-> "dm_env.specs.BoundedArray", shape |-> shape, dtype |-> dtype,
     minimum |-> minimum, maximum |-> maximum]

dm_env_specs_Array(shape, dtype) ==
    [type |-> "dm_env.specs.Array", shape |-> shape, dtype |-> dtype]

jumanji_specs_to_dm_env_specs_bounded_first(sp) ==
    IF isinstance(sp, "BoundedArray")
    THEN Ok(dm_env_specs_BoundedArray(sp.shape, sp.dtype, sp.minimum[1],
                                      sp.maximum[1]))
    ELSE IF isinstance(sp, "DiscreteArray")
    THEN Ok(dm_env_specs_DiscreteArray(sp.num_values[1], sp.dtype))
    ELSE IF isinstance(sp, "Array")
    THEN Ok(dm_env_specs_Array(sp.shape, sp.dtype))
    ELSE Raise("ValueError")

jumanji_specs_to_dm_env_specs(sp) ==
    IF isinstance(sp, "DiscreteArray")
    THEN Ok(dm_env_specs_DiscreteArray(sp.num_values[1], sp.dtype))
    ELSE IF isinstance(sp, "BoundedArray")
    THEN Ok(dm_env_specs_BoundedArray(sp.shape, sp.dtype, sp.minimum[1],
                                      sp.maximum[1]))
    ELSE IF isinstance(sp, "Array")
    THEN Ok(dm_env_specs_Array(sp.shape, sp.dtype))
    ELSE Raise("ValueError")

(* elements of a Box bound: a finite number, -np.inf or np.inf *)
Finite(v) == [inf |-> 0, val |-> v]
NegInf    == [inf |-> -1, val |-> 0]
PosInf    == [inf |-> 1, val |-> 0]

gym_spaces_Discrete(n, start) == [type |-> "Discrete", n |-> n, start |-> start]

(* low and high are functions from the indices of their own shape *)
gym_spaces_Box(low, low_shape, high, high_shape, shape, dtype) ==
    [type |-> "Box", low |-> low, low_shape |-> low_shape, high |-> high,
     high_shape |-> high_shape, shape |-> shape, dtype |-> dtype]

gym_spaces_Dict(spaces) == [type |-> "Dict", spaces |-> spaces]

(* np.broadcast_to(np.array(a), shape=shape) *)
np_broadcast_to(a, shape) ==
    IF ~CanBroadcast(a.shape, shape) THEN Raise("ValueError")
    ELSE Ok([idx \in Indices(shape) |->
                Finite(jnp_broadcast_to(a, shape).data[idx])])

(* np.array(a), as a function from the indices of a's own shape *)
np_array(a) == Ok([idx \in Indices(a.shape) |-> Finite(a.data[idx])])

(* vars(spec).items() of the nested spec: the name and the two sub-specs *)
ObservationSpec_vars(sp) ==
    <<[key |-> "_name", is_spec |-> FALSE, value |-> "observation"],
      [key |-> "board_obs", is_spec |-> TRUE, value |-> sp.board_obs],
      [key |-> "action_mask", is_spec |-> TRUE, value |-> sp.action_mask]>>

BoundedArray_to_Box_unbroadcast(sp) ==
    LET low == np_array(sp.minimum[1])
        high == np_array(sp.maximum[1])
    IN IF low.exc # "none" THEN Raise(low.exc)
       ELSE IF high.exc # "none" THEN Raise(high.exc)
       ELSE Ok(gym_spaces_Box(low.value[1], sp.minimum[1].shape,
                              high.value[1], sp.maximum[1].shape,
                              sp.shape, sp.dtype))

BoundedArray_to_Box(sp) ==
    LET low == np_broadcast_to(sp.minimum[1], sp.shape)
        high == np_broadcast_to(sp.maximum[1], sp.shape)
    IN IF low.exc # "none" THEN Raise(low.exc)
       ELSE IF high.exc # "none" THEN Raise(high.exc)
       ELSE Ok(gym_spaces_Box(low.value[1], sp.shape, high.value[1], sp.shape,
                              sp.shape, sp.dtype))

RECURSIVE jumanji_specs_to_gym_spaces(_)
jumanji_specs_to_gym_spaces(sp) ==
    IF isinstance(sp, "DiscreteArray")
    THEN Ok(gym_spaces_Discrete(sp.num_values[1], 0))
    ELSE IF isinstance(sp, "BoundedArray")
    THEN BoundedArray_to_Box(sp)
    ELSE IF isinstance(sp, "Array")
    THEN Ok(gym_spaces_Box([idx \in Indices(sp.shape) |-> NegInf], sp.shape,
                           [idx \in Indices(sp.shape) |-> PosInf], sp.shape,
                           sp.shape, sp.dtype))
    ELSE LET items == ObservationSpec_vars(sp)
             kept == {i \in DOMAIN items : items[i].is_spec}
             conv == [i \in kept |-> jumanji_specs_to_gym_spaces(items[i].value)]
         IN IF \E i \in kept : conv[i].exc # "none"
            THEN Raise(conv[CHOOSE i \in kept : conv[i].exc # "none"].exc)
            ELSE Ok(gym_spaces_Dict(
                    [k \in {items[i].key : i \in kept} |->
                       conv[CHOOSE i \in kept : items[i].key = k].value[1]]))

----------------------------------------------------------------------------
(* Inputs of the spec operations *)

BoundVals == 0..MaxBound
ElemVals  == -1..(MaxBound + 1)

(* Python numbers or (nested) sequences of them handed in as minimum / maximum *)
BoundInputs ==
    UNION {{[shape |-> sh, data |-> d] : d \in [Indices(sh) -> BoundVals]} :
           sh \in Shapes}

Int8Half == 2 ^ (IntBits("int8") - 1)

NumValuesInputs ==
    {[kind |-> "int", val |-> n] :
        n \in (-1..MaxNumValues) \cup {Int8Half, Int8Half + 1,
                                      2 * Int8Half + MaxNumValues}}
    \cup {[kind |-> "float", val |-> MaxNumValues]}

OtherDType(dtype) == IF dtype = "float32" THEN "int32" ELSE "float32"

(* arrays handed to validate: the spec's shape, with or without an added
   leading axis, in the spec's dtype or another one *)
ValueShapes(sp) == {sp.shape} \cup ({<<1>> \o sp.shape} \cap Shapes)

Values(sp) ==
    UNION {{[shape |-> sh, dtype |-> dt, data |-> d] :
               d \in [Indices(sh) -> {v \in ElemVals \cup {Int8Half - 1} : CastTo(v, dt) = v}]} :
           sh \in ValueShapes(sp), dt \in {sp.dtype, OtherDType(sp.dtype)}}

FieldDTypes == {"int8", "bool"}

FieldSpecs ==
    {Array_init(sh, dt).value[1] : sh \in Shapes, dt \in FieldDTypes}
    \cup {BoundedArray_init(sh, dt, Scalar(0), Scalar(MaxBound)).value[1] :
            sh \in Shapes, dt \in FieldDTypes}

FieldValues(sp) ==
    {[shape |-> sh, dtype |-> dt, data |-> [idx \in Indices(sh) |-> v]] :
        sh \in ValueShapes(sp), dt \in {sp.dtype, OtherDType(sp.dtype)},
        v \in {0, MaxBound + 1}}

ObservationValues(sp) ==
    {None} \cup
    {Some([board |-> b, action_mask |-> m]) :
        b \in FieldValues(sp.board_obs), m \in FieldValues(sp.action_mask)}

(* keyword arguments handed to replace: none, one attribute, or dtype together
   with maximum; names the spec's constructor does not take are included *)
Kw1(n, v) == [NoKw EXCEPT ![n] = Some(v)]

ReplaceBounds == {Scalar(0), Scalar(MaxBound), Scalar(MaxBound + 1)}

LeafKwargs ==
    {NoKw}
    \cup {Kw1("shape", sh) : sh \in Shapes}
    \cup {Kw1("dtype", dt) : dt \in DTypes}
    \cup {Kw1("minimum", b) : b \in ReplaceBounds}
    \cup {Kw1("maximum", b) : b \in ReplaceBounds}
    \cup {Kw1("num_values", [kind |-> "int", val |-> n]) :
            n \in {0, MaxNumValues + 1, Int8Half + 1}}
    \cup {[Kw1("dtype", dt) EXCEPT !["maximum"] = Some(b)] :
            dt \in DTypes, b \in ReplaceBounds}

ObservationKwargs ==
    {NoKw, Kw1("shape", <<>>)}
    \cup {Kw1("board_obs", f) : f \in FieldSpecs}
    \cup {Kw1("action_mask", f) : f \in FieldSpecs}

----------------------------------------------------------------------------
(* Spec operations *)

Construct(name, args, r) ==
    /\ vop' = name
    /\ vargs' = Some(args)
    /\ vexc' = r.exc
    /\ spec' = r.value
    /\ vout' = r.value
    /\ UNCHANGED wvars

(* the program constructs one spec and then calls one of its (pure) methods *)
NothingBuilt == vop = "init"

NewArray ==
    /\ NothingBuilt
    /\ \E sh \in Shapes, dt \in DTypes :
        Construct("Array", [shape |-> sh, dtype |-> dt], Array_init(sh, dt))

NewBoundedArray ==
    /\ NothingBuilt
    /\ \E sh \in Shapes, dt \in DTypes, mn \in BoundInputs, mx \in BoundInputs :
        Construct("BoundedArray",
                  [shape |-> sh, dtype |-> dt, minimum |-> mn, maximum |-> mx],
                  BoundedArray_init(sh, dt, mn, mx))

NewDiscreteArray ==
    /\ NothingBuilt
    /\ \E nv \in NumValuesInputs, dt \in DTypes :
        Construct("DiscreteArray", [num_values |-> nv, dtype |-> dt],
                  DiscreteArray_init(nv, dt))

NewObservationSpec ==
    /\ NothingBuilt
    /\ \E b \in FieldSpecs, m \in FieldSpecs :
        Construct("ObservationSpec", [board_obs |-> b, action_mask |-> m],
                  ObservationSpec_init(b, m))

IsLeaf(sp) == sp.type # "ObservationSpec"

JustBuilt ==
    /\ spec # None
    /\ vop \in {"Array", "BoundedArray", "DiscreteArray", "ObservationSpec"}

Call(name, arg, r) ==
    /\ vop' = name
    /\ vargs' = Some(arg)
    /\ vexc' = r.exc
    /\ vout' = r.value
    /\ UNCHANGED <<spec, wvars>>

Validate ==
    /\ JustBuilt
    /\ IsLeaf(spec[1])
    /\ \E value \in Values(spec[1]) :
          Call("validate", value, LeafValidate(spec[1], value))

ValidateObservation ==
    /\ JustBuilt
    /\ ~IsLeaf(spec[1])
    /\ \E value \in ObservationValues(spec[1]) :
          Call("validate", value, ObservationSpec_validate(spec[1], value))

(* spec.validate(spec.generate_value()) *)
GenerateValue ==
    /\ JustBuilt
    /\ IsLeaf(spec[1])
    /\ LET value == LeafGenerateValue(spec[1])
       IN Call("generate_value", value, LeafValidate(spec[1], value))

GenerateObservation ==
    /\ JustBuilt
    /\ ~IsLeaf(spec[1])
    /\ LET value == ObservationSpec_generate_value(spec[1])
       IN Call("generate_value", value,
               ObservationSpec_validate(spec[1], Some(value)))

(* new_spec = spec.replace(...) with keyword arguments kwargs *)
Replace ==
    /\ JustBuilt
    /\ IsLeaf(spec[1])
    /\ \E kwargs \in LeafKwargs :
          Call("replace", kwargs, Array_replace(spec[1], kwargs))

ReplaceObservation ==
    /\ JustBuilt
    /\ ~IsLeaf(spec[1])
    /\ \E kwargs \in ObservationKwargs :
          Call("replace", kwargs, ObservationSpec_replace(spec[1], kwargs))

(* JumanjiToDMEnvWrapper.observation_spec / action_spec on the env's spec *)
ToDMEnv ==
    /\ JustBuilt
    /\ Call("to_dm_env", spec[1], jumanji_specs_to_dm_env_specs(spec[1]))

(* JumanjiToGymWrapper's observation_space / action_space for the env's spec *)
ToGym ==
    /\ JustBuilt
    /\ Call("to_gym", spec[1], jumanji_specs_to_gym_spaces(spec[1]))

WrappersIdle ==
    /\ kind = "none"
    /\ time_limit = 1
    /\ key = None
    /\ state = None
    /\ ret = None
    /\ op = "init"
    /\ in_key = None
    /\ in_state = None
    /\ in_action = None
    /\ prev_type = "NONE"
    /\ exc = "none"
    /\ seed_arg = None
    /\ trace = None

InitSpecs ==
    /\ WrappersIdle
    /\ SpecsIdle

NextSpecs ==
    \/ NewArray
    \/ NewBoundedArray
    \/ NewDiscreteArray
    \/ NewObservationSpec
    \/ Validate
    \/ ValidateObservation
    \/ GenerateValue
    \/ GenerateObservation
    \/ Replace
    \/ ReplaceObservation
    \/ ToDMEnv
    \/ ToGym

SpecSpecs == InitSpecs /\ [][NextSpecs]_vars

----------------------------------------------------------------------------
(* CMST: SplitRandomGenerator.  Arrays are functions from 0-based indices. *)

EMPTY_NODE   == -1
UTILITY_NODE == -1

(* the constructor arguments kept by Generator.__init__ *)
GeneratorParams ==
    {[num_nodes |-> n, num_edges |-> e, max_degree |-> n, num_agents |-> a,
      num_nodes_per_agent |-> k, max_step |-> s] :
        n \in 2..MaxNodes, e \in 1..MaxEdges, a \in 1..MaxGenAgents,
        k \in 1..MaxNodesPerAgent, s \in {MaxGenSteps}}

(* jnp.arange(num_nodes) *)
jnp_arange(n) == [i \in 0..(n - 1) |-> i]

(* nodes reachable from the nodes in seen along the undirected edges E *)
RECURSIVE Reach(_, _)
Reach(seen, E) ==
    LET more == seen \cup {e[2] : e \in {e \in E : e[1] \in seen}}
                     \cup {e[1] : e \in {e \in E : e[2] \in seen}}
    IN IF more = seen THEN seen ELSE Reach(more, E)

(* a sequence as a 0-based array *)
ToArray(s) == [i \in 0..(Len(s) - 1) |-> s[i + 1]]

(* the nodes of S in ascending order *)
RECURSIVE SortedNodes(_)
SortedNodes(S) ==
    IF S = {} THEN <<>>
    ELSE LET m == CHOOSE x \in S : \A y \in S : x <= y
         IN <<m>> \o SortedNodes(S \ {m})

(* the edges of E in lexicographic order *)
RECURSIVE SortedEdges(_)
SortedEdges(E) ==
    IF E = {} THEN <<>>
    ELSE LET m == CHOOSE e \in E : \A f \in E :
                      e[1] < f[1] \/ (e[1] = f[1] /\ e[2] <= f[2])
         IN <<m>> \o SortedEdges(E \ {m})

(* multi_random_walk(nodes, num_edges, num_agents, max_degree, key): the
   possible results, a connected graph on the nodes with num_edges edges and
   its node_edges matrix, and the nodes split into one sub-graph per agent *)
multi_random_walk(nodes, num_edges, num_agents, max_degree) ==
    LET N == {nodes[i] : i \in DOMAIN nodes}
        AllEdges == {e \in N \X N : e[1] < e[2]}
        EdgeSets == {E \in SUBSET AllEdges :
                        /\ Cardinality(E) = num_edges
                        /\ Reach({nodes[0]}, E) = N}
        Splits == {f \in [N -> 0..(num_agents - 1)] :
                        \A a \in 0..(num_agents - 1) : \E u \in N : f[u] = a}
    IN {[graph |->
            [edges |-> ToArray(SortedEdges(E)),
             node_edges |-> [u \in N |-> [v \in N |->
                               IF <<u, v>> \in E \/ <<v, u>> \in E
                               THEN v ELSE EMPTY_NODE]]],
         nodes_per_sub_graph |->
            [a \in 0..(num_agents - 1) |->
                ToArray(SortedNodes({u \in N : f[u] = a}))]] :
        E \in EdgeSets, f \in Splits}

(* jax.random.choice(key, a, [n], replace=False): the possible draws, none
   when the sample is larger than the population (ValueError) *)
jax_random_choice(a, n) ==
    {s \in [0..(n - 1) -> {a[i] : i \in DOMAIN a}] :
        \A i, j \in 0..(n - 1) : i # j => s[i] # s[j]}

(* jnp.repeat(x[None, ...], n, axis=0) *)
jnp_repeat_first_axis(x, n) == [i \in 0..(n - 1) |-> x]

SplitRandomGenerator_agent_own_index(arrays, agent, agent_components) ==
    [arrays EXCEPT
        !.node_types = [u \in DOMAIN @ |->
                          IF \E i \in DOMAIN agent_components :
                                agent_components[i] = u
                          THEN agent ELSE @[u]],
        !.agents_pos[agent] = agent_components[0],
        !.conn_nodes[agent][0] = agent_components[0],
        !.conn_nodes_index[agent][agent] = agent_components[0],
        !.nodes_to_connect[agent] = agent_components]

(* the effect of the loop body for one agent on the arrays *)
SplitRandomGenerator_agent(arrays, agent, agent_components) ==
    [arrays EXCEPT
        !.node_types = [u \in DOMAIN @ |->
                          IF \E i \in DOMAIN agent_components :
                                agent_components[i] = u
                          THEN agent ELSE @[u]],
        !.agents_pos[agent] = agent_components[0],
        !.conn_nodes[agent][0] = agent_components[0],
        !.conn_nodes_index[agent][agent_components[0]] = agent_components[0],
        !.nodes_to_connect[agent] = agent_components]

(* the loop over the agents 0 .. n-1, given each agent's draw *)
RECURSIVE SplitRandomGenerator_loop(_, _, _)
SplitRandomGenerator_loop(arrays, n, draws) ==
    IF n = 0 THEN arrays
    ELSE SplitRandomGenerator_agent(
             SplitRandomGenerator_loop(arrays, n - 1, draws), n - 1, draws[n - 1])

SplitRandomGenerator_call_own_edges(p, walk, draws) ==
    LET agents == 0..(p.num_agents - 1)
        arrays ==
            [node_types |-> [u \in 0..(p.num_nodes - 1) |-> EMPTY_NODE],
             edges |-> [a \in agents |-> [i \in DOMAIN walk.graph.edges |->
                          IF a = 0 THEN walk.graph.edges[i]
                          ELSE <<walk.graph.edges[i][2], walk.graph.edges[i][1]>>]],
             agents_pos |-> [a \in agents |-> 0],
             conn_nodes |-> [a \in agents |->
                               [t \in 0..(p.max_step - 1) |-> EMPTY_NODE]],
             conn_nodes_index |-> [a \in agents |->
                               [u \in 0..(p.num_nodes - 1) |-> EMPTY_NODE]],
             node_edges |-> walk.graph.node_edges,
             nodes_to_connect |-> [a \in agents |->
                               [i \in 0..(p.num_nodes_per_agent - 1) |-> EMPTY_NODE]]]
    IN SplitRandomGenerator_loop(arrays, p.num_agents, draws)

(* SplitRandomGenerator.__call__ for one outcome of the random walk and of
   the agents' draws *)
SplitRandomGenerator_call(p, walk, draws) ==
    LET agents == 0..(p.num_agents - 1)
        arrays ==
            [node_types |-> [u \in 0..(p.num_nodes - 1) |-> EMPTY_NODE],
             edges |-> jnp_repeat_first_axis(walk.graph.edges, p.num_agents),
             agents_pos |-> [a \in agents |-> 0],
             conn_nodes |-> [a \in agents |->
                               [t \in 0..(p.max_step - 1) |-> EMPTY_NODE]],
             conn_nodes_index |-> [a \in agents |->
                               [u \in 0..(p.num_nodes - 1) |-> EMPTY_NODE]],
             node_edges |-> walk.graph.node_edges,
             nodes_to_connect |-> [a \in agents |->
                               [i \in 0..(p.num_nodes_per_agent - 1) |-> EMPTY_NODE]]]
    IN SplitRandomGenerator_loop(arrays, p.num_agents, draws)

(* data = generator_fn(key) *)
GeneratorCall ==
    /\ kind = "cmst"
    /\ op = "init"
    /\ LET p == state[1]
       IN \E k \in {PRNGKey(0)},
             walk \in multi_random_walk(jnp_arange(p.num_nodes), p.num_edges,
                                        p.num_agents, p.max_degree) :
            /\ in_key' = Some(k)
            /\ in_state' = Some(walk)
            /\ IF \E a \in 0..(p.num_agents - 1) :
                     jax_random_choice(walk.nodes_per_sub_graph[a],
                                       p.num_nodes_per_agent) = {}
               THEN /\ exc' = "ValueError"
                    /\ ret' = None
                    /\ in_action' = None
               ELSE \E draws \in [0..(p.num_agents - 1) ->
                                    UNION {jax_random_choice(
                                              walk.nodes_per_sub_graph[a],
                                              p.num_nodes_per_agent) :
                                           a \in 0..(p.num_agents - 1)}] :
                      /\ \A a \in 0..(p.num_agents - 1) :
                            draws[a] \in jax_random_choice(
                                            walk.nodes_per_sub_graph[a],
                                            p.num_nodes_per_agent)
                      /\ exc' = "none"
                      /\ ret' = Some(SplitRandomGenerator_call(p, walk, draws))
                      /\ in_action' = Some(draws)
    /\ op' = "call"
    /\ UNCHANGED <<kind, time_limit, key, state, prev_type, gvars, svars>>

----------------------------------------------------------------------------
(* Maze: positions are <<row, col>>, actions 0 up, 1 right, 2 down, 3 left *)

Cells == (0..(MazeRows - 1)) \X (0..(MazeCols - 1))

MazeActions == 0..3

Move_mirrored(position, action) ==
    CASE action = 0 -> <<position[1] + 1, position[2]>>
      [] action = 1 -> <<position[1], position[2] - 1>>
      [] action = 2 -> <<position[1] - 1, position[2]>>
      [] action = 3 -> <<position[1], position[2] + 1>>

(* the cell an action leads to *)
Move(position, action) ==
    CASE action = 0 -> <<position[1] - 1, position[2]>>
      [] action = 1 -> <<position[1], position[2] + 1>>
      [] action = 2 -> <<position[1] + 1, position[2]>>
      [] action = 3 -> <<position[1], position[2] - 1>>

(* the mazes reset can generate: some walls, the agent and the target on two
   different free cells *)
Maze_reset(k) ==
    {[state |-> [key |-> k, walls |-> walls, agent_position |-> agent,
                 target_position |-> target, step_count |-> 0],
      timestep |-> [step_type |-> FIRST, reward |-> 0, discount |-> 1]] :
        walls \in {w \in SUBSET Cells : Cardinality(w) <= MaxWalls},
        agent \in Cells, target \in Cells} \cap
    {r \in [state : [key : {k}, walls : SUBSET Cells, agent_position : Cells,
                     target_position : Cells, step_count : {0}],
            timestep : [step_type : {FIRST}, reward : {0}, discount : {1}]] :
        /\ r.state.agent_position \notin r.state.walls
        /\ r.state.target_position \notin r.state.walls
        /\ r.state.agent_position # r.state.target_position}

(* the agent moves unless the cell is a wall or outside the grid; reaching the
   target gives reward 1 and ends the episode *)
Maze_step(st, action) ==
    LET to == Move(st.agent_position, action)
        agent_position == IF to \in Cells /\ to \notin st.walls
                          THEN to ELSE st.agent_position
        target_reached == agent_position = st.target_position
    IN [state |-> [st EXCEPT !.agent_position = agent_position,
                             !.step_count = st.step_count + 1],
        timestep |-> [step_type |-> IF target_reached THEN LAST ELSE MID,
                      reward |-> IF target_reached THEN 1 ELSE 0,
                      discount |-> IF target_reached THEN 0 ELSE 1]]

(* state, timestep = maze_env.reset(key) *)
MazeReset ==
    /\ kind = "maze"
    /\ op = "init"
    /\ \E k \in {PRNGKey(0)} : \E r \in Maze_reset(k) :
        /\ state' = Some(r.state)
        /\ ret' = Some(r.timestep)
        /\ in_key' = Some(k)
    /\ op' = "reset"
    /\ exc' = "none"
    /\ UNCHANGED <<kind, time_limit, key, in_state, in_action, prev_type,
                   gvars, svars>>

(* state, timestep = maze_env.step(state, action), while the episode runs and
   within the step limit *)
MazeStep ==
    /\ kind = "maze"
    /\ state # None
    /\ ret[1].step_type # LAST
    /\ state[1].step_count + 1 < time_limit
    /\ \E action \in MazeActions :
        LET r == Maze_step(state[1], action)
        IN /\ state' = Some(r.state)
           /\ ret' = Some(r.timestep)
           /\ in_action' = Some(action)
    /\ in_state' = state
    /\ op' = "step"
    /\ exc' = "none"
    /\ UNCHANGED <<kind, time_limit, key, in_key, prev_type, gvars, svars>>

(* Generators and environments called directly: the CMST generator and Maze *)
InitEnvs ==
    /\ SpecsIdle
    /\ kind \in {"cmst", "maze"}
    /\ time_limit \in IF kind = "maze" THEN 2..MaxStepLimit ELSE {1}   \* step_limit
    /\ key = None
    /\ state \in IF kind = "cmst"
                 THEN {Some(p) : p \in GeneratorParams}   \* the generator object
                 ELSE {None}
    /\ ret = None
    /\ op = "init"
    /\ in_key = None
    /\ in_state = None
    /\ in_action = None
    /\ prev_type = "NONE"
    /\ exc = "none"
    /\ seed_arg = None
    /\ trace = None

NextEnvs ==
    \/ GeneratorCall
    \/ MazeReset
    \/ MazeStep

SpecEnvs == InitEnvs /\ [][NextEnvs]_vars

----------------------------------------------------------------------------
(* Claims about the spec layer, checked under SpecSpecs *)

(* element of the spec's bound at an index of the spec's shape *)
BoundAt(bound, sp, idx) == jnp_broadcast_to(bound[1], sp.shape).data[idx]

InBounds(sp, v) ==
    \A idx \in Indices(sp.shape) :
        /\ BoundAt(sp.minimum, sp, idx) <= v.data[idx]
        /\ v.data[idx] <= BoundAt(sp.maximum, sp, idx)

Conforms(sp, v) ==
    /\ v.shape = sp.shape
    /\ v.dtype = sp.dtype
    /\ sp.type # "Array" => InBounds(sp, v)

(* C6: Array.validate raises ValueError on a shape or dtype mismatch and
   otherwise returns the value; a nested ObservationSpec.validate raises
   ValueError when any one field fails its sub-spec and raises an exception
   when given None. *)
C6_ValidateRejectsMismatch ==
    (vop = "validate" /\ spec # None) =>
        LET sp == spec[1]
            v == vargs[1]
        IN IF IsLeaf(sp)
           THEN /\ (v.shape # sp.shape \/ v.dtype # sp.dtype) =>
                       (vexc = "ValueError" /\ vout = None)
                /\ (sp.type = "Array" /\ v.shape = sp.shape /\ v.dtype = sp.dtype) =>
                       (vexc = "none" /\ vout = Some(v))
           ELSE /\ v = None => (vexc # "none" /\ vout = None)
                /\ (v # None /\ (\/ ~Conforms(sp.board_obs, v[1].board)
                                 \/ ~Conforms(sp.action_mask, v[1].action_mask))) =>
                       (vexc = "ValueError" /\ vout = None)

C6_Witness ==
    /\ vop = "validate" /\ spec # None /\ ~IsLeaf(spec[1])
    /\ vargs[1] # None
    /\ Conforms(spec[1].board_obs, vargs[1][1].board)
    /\ vargs[1][1].action_mask.shape = spec[1].action_mask.shape
    /\ vargs[1][1].action_mask.dtype # spec[1].action_mask.dtype
    /\ vexc = "ValueError"

(* C7: for every constructible spec, validate(generate_value()) does not
   raise and returns the generated value, which conforms to the spec. *)
C7_GenerateValueConforms ==
    (vop = "generate_value") =>
        /\ vexc = "none"
        /\ vout = Some(vargs[1])
        /\ IF IsLeaf(spec[1]) THEN Conforms(spec[1], vargs[1])
           ELSE /\ Conforms(spec[1].board_obs, vargs[1].board)
                /\ Conforms(spec[1].action_mask, vargs[1].action_mask)

C7_Witness ==
    /\ vop = "generate_value" /\ spec[1].type = "BoundedArray"
    /\ \E i, j \in Indices(spec[1].shape) :
          vargs[1].data[i] = 0 /\ vargs[1].data[j] = MaxBound
    /\ vexc = "none"

(* C8: for a value of the right shape and dtype, BoundedArray.validate
   accepts it iff every element lies between the bounds, bounds included,
   and raises ValueError otherwise. *)
C8_BoundsInclusive ==
    (/\ vop = "validate" /\ spec # None
     /\ spec[1].type \in {"BoundedArray", "DiscreteArray"}
     /\ vargs[1].shape = spec[1].shape /\ vargs[1].dtype = spec[1].dtype) =>
        IF InBounds(spec[1], vargs[1])
        THEN vexc = "none" /\ vout = Some(vargs[1])
        ELSE vexc = "ValueError" /\ vout = None

C8_Witness ==
    /\ vop = "validate" /\ spec # None /\ spec[1].type = "BoundedArray"
    /\ vexc = "none"
    /\ \E i, j \in Indices(spec[1].shape) :
          /\ vargs[1].data[i] = BoundAt(spec[1].maximum, spec[1], i)
          /\ vargs[1].data[j] = BoundAt(spec[1].minimum, spec[1], j)
          /\ BoundAt(spec[1].minimum, spec[1], i) < BoundAt(spec[1].maximum, spec[1], i)

(* C9: BoundedArray construction raises ValueError if minimum or maximum is
   not broadcastable to shape, or if an element of the broadcast minimum
   exceeds the corresponding element of the broadcast maximum; every
   BoundedArray that exists has minimum <= maximum elementwise. *)
C9_BoundedArrayInit ==
    /\ (vop = "BoundedArray") =>
          LET a == vargs[1]
              mn == jnp_asarray(a.minimum, a.dtype)
              mx == jnp_asarray(a.maximum, a.dtype)
              fits == CanBroadcast(mn.shape, a.shape) /\ CanBroadcast(mx.shape, a.shape)
          IN /\ ~fits => (vexc = "ValueError" /\ spec = None)
             /\ (fits /\ \E idx \in Indices(a.shape) :
                            jnp_broadcast_to(mn, a.shape).data[idx]
                              > jnp_broadcast_to(mx, a.shape).data[idx]) =>
                    (vexc = "ValueError" /\ spec = None)
    /\ (spec # None /\ spec[1].type \in {"BoundedArray", "DiscreteArray"}) =>
          \A idx \in Indices(spec[1].shape) :
              BoundAt(spec[1].minimum, spec[1], idx)
                <= BoundAt(spec[1].maximum, spec[1], idx)

C9_Witness ==
    /\ vop = "BoundedArray" /\ vexc = "ValueError" /\ spec = None
    /\ LET a == vargs[1]
           mn == jnp_asarray(a.minimum, a.dtype)
           mx == jnp_asarray(a.maximum, a.dtype)
       IN /\ CanBroadcast(mn.shape, a.shape)
          /\ CanBroadcast(mx.shape, a.shape)
          /\ mn.shape # a.shape
          /\ \E i, j \in Indices(a.shape) :
                /\ jnp_broadcast_to(mn, a.shape).data[i]
                     > jnp_broadcast_to(mx, a.shape).data[i]
                /\ jnp_broadcast_to(mn, a.shape).data[j]
                     <= jnp_broadcast_to(mx, a.shape).data[j]

(* C10: DiscreteArray(num_values, dtype) raises ValueError if num_values is
   not a positive integer or dtype is not integral; otherwise it is a scalar
   bounded spec with minimum 0 and maximum num_values - 1, and validate
   accepts exactly the integers 0 .. num_values - 1. *)
C10_DiscreteArray ==
    /\ (vop = "DiscreteArray") =>
          LET a == vargs[1]
          IN IF \/ a.num_values.kind # "int"
                \/ a.num_values.val <= 0
                \/ ~IsIntegral(a.dtype)
             THEN vexc = "ValueError" /\ spec = None
             ELSE /\ vexc = "none"
                  /\ spec # None
                  /\ spec[1].shape = <<>>
                  /\ spec[1].minimum[1].data[<<>>] = 0
                  /\ spec[1].maximum[1].data[<<>>] = a.num_values.val - 1
    /\ (/\ vop = "validate" /\ spec # None /\ spec[1].type = "DiscreteArray"
        /\ vargs[1].shape = <<>> /\ vargs[1].dtype = spec[1].dtype) =>
          (vexc = "none" <=>
              (0 <= vargs[1].data[<<>>]
                 /\ vargs[1].data[<<>>] <= spec[1].num_values[1] - 1))

----------------------------------------------------------------------------
(* replace *)

(* public attributes of a spec of the given type *)
Attributes(type) ==
    CASE type = "Array"           -> {"shape", "dtype"}
      [] type = "BoundedArray"    -> {"shape", "dtype", "minimum", "maximum"}
      [] type = "DiscreteArray"   -> {"shape", "dtype", "minimum", "maximum",
                                      "num_values"}
      [] type = "ObservationSpec" -> {"board_obs", "action_mask"}

(* the value of attribute n of spec sp, bounds compared by shape and elements *)
AttrValue(sp, n) ==
    CASE n \in {"minimum", "maximum"} ->
           [shape |-> sp[n][1].shape, data |-> sp[n][1].data]
      [] n = "num_values" -> sp[n][1]
      [] OTHER -> sp[n]

(* the value handed to replace for attribute n *)
GivenValue(kw, n) ==
    CASE n \in {"minimum", "maximum"} ->
           [shape |-> kw[n][1].shape, data |-> kw[n][1].data]
      [] n = "num_values" -> kw[n][1].val
      [] OTHER -> kw[n][1]

(* C11 as stated: replace returns a new spec of the same type in which exactly
   the named attributes take the given values and every other attribute
   equals that of the original. *)
C11_ReplaceExactlyNamed ==
    (vop = "replace" /\ Named(vargs[1]) \subseteq Attributes(spec[1].type)) =>
        /\ vexc = "none"
        /\ vout[1].type = spec[1].type
        /\ \A n \in Attributes(spec[1].type) :
              AttrValue(vout[1], n) =
                 IF n \in Named(vargs[1]) THEN GivenValue(vargs[1], n)
                 ELSE AttrValue(spec[1], n)

(* the argument replace hands to the constructor for parameter n: the given
   value when n is named, else the original's attribute of that name *)
ReplaceArg(n) ==
    IF vargs[1][n] # None THEN vargs[1][n][1]
    ELSE CASE n \in {"minimum", "maximum"} -> spec[1][n][1]
           [] n = "num_values" -> [kind |-> "int", val |-> spec[1].num_values[1]]
           [] OTHER -> spec[1][n]

ReplacedArray ==
    /\ vexc = "none"
    /\ vout = Some([type |-> "Array", shape |-> ReplaceArg("shape"),
                    dtype |-> ReplaceArg("dtype"), minimum |-> None,
                    maximum |-> None, num_values |-> None])

ReplacedBoundedArray ==
    LET sh == ReplaceArg("shape")
        dt == ReplaceArg("dtype")
        mn == jnp_asarray(ReplaceArg("minimum"), dt)
        mx == jnp_asarray(ReplaceArg("maximum"), dt)
        fits == /\ CanBroadcast(mn.shape, sh)
                /\ CanBroadcast(mx.shape, sh)
                /\ ~AnyLess(jnp_broadcast_to(mx, sh), jnp_broadcast_to(mn, sh))
    IN IF fits
       THEN /\ vexc = "none"
            /\ vout = Some([type |-> "BoundedArray", shape |-> sh, dtype |-> dt,
                            minimum |-> Some(mn), maximum |-> Some(mx),
                            num_values |-> None])
       ELSE vexc = "ValueError" /\ vout = None

ReplacedDiscreteArray ==
    LET nv == ReplaceArg("num_values").val
        dt == ReplaceArg("dtype")
    IN IF nv > 0 /\ IsIntegral(dt) /\ CastTo(nv - 1, dt) >= 0
       THEN /\ vexc = "none"
            /\ vout = Some([type |-> "DiscreteArray", shape |-> <<>>,
                            dtype |-> dt,
                            minimum |-> Some(jnp_asarray(Scalar(0), dt)),
                            maximum |-> Some(jnp_asarray(Scalar(nv - 1), dt)),
                            num_values |-> Some(nv)])
       ELSE vexc = "ValueError" /\ vout = None

ReplacedObservationSpec ==
    /\ vexc = "none"
    /\ vout = Some([type |-> "ObservationSpec",
                    board_obs |-> ReplaceArg("board_obs"),
                    action_mask |-> ReplaceArg("action_mask")])

ReplaceRebuilds ==
    (vop = "replace") =>
        IF ~(Named(vargs[1]) \subseteq ConstructorParams(spec[1].type))
        THEN vexc = "TypeError" /\ vout = None
        ELSE CASE spec[1].type = "Array"           -> ReplacedArray
               [] spec[1].type = "BoundedArray"    -> ReplacedBoundedArray
               [] spec[1].type = "DiscreteArray"   -> ReplacedDiscreteArray
               [] spec[1].type = "ObservationSpec" -> ReplacedObservationSpec

(* C11 (amended): replace is the constructor of the spec's own type applied to
   the original's constructor arguments overridden by the named ones.  A name
   that is not a constructor parameter raises TypeError; an Array or a nested
   ObservationSpec comes back with exactly the named arguments replaced; a
   BoundedArray comes back with shape, dtype and the bounds converted to the
   resulting dtype, or ValueError when the bounds do not fit the shape or a
   minimum exceeds a maximum; a DiscreteArray comes back with its bounds
   recomputed from num_values and dtype, or ValueError.  The original is left
   as it was. *)
C11_ReplaceRebuilds ==
    /\ []ReplaceRebuilds
    /\ [][vop' = "replace" => spec' = spec]_vars

C11_Witness ==
    /\ vop = "replace"
    /\ spec[1].type = "BoundedArray"
    /\ spec[1].dtype = "int32"
    /\ Named(vargs[1]) = {"dtype", "maximum"}
    /\ vargs[1]["dtype"] = Some("bool")
    /\ vargs[1]["maximum"] = Some(Scalar(MaxBound + 1))
    /\ vexc = "none"
    /\ vout[1].dtype = "bool"
    /\ vout[1].shape = spec[1].shape
    /\ vout[1].maximum[1].data[<<>>] = 1

----------------------------------------------------------------------------
(* Conversions *)

(* C12: jumanji_specs_to_dm_env_specs turns a DiscreteArray into a dm_env
   DiscreteArray with the same num_values (never into a BoundedArray or an
   Array, although it is an instance of both), a BoundedArray into a dm_env
   BoundedArray with the same shape, dtype and bounds, an Array into a dm_env
   Array with the same shape and dtype, and raises ValueError for a nested
   spec. *)
C12_ToDMEnvSpecs ==
    (vop = "to_dm_env") =>
        CASE spec[1].type = "DiscreteArray" ->
               /\ vexc = "none"
               /\ vout[1].type = "dm_env.specs.DiscreteArray"
               /\ vout[1].num_values = spec[1].num_values[1]
               /\ vout[1].dtype = spec[1].dtype
          [] spec[1].type = "BoundedArray" ->
               /\ vexc = "none"
               /\ vout[1].type = "dm_env.specs.BoundedArray"
               /\ vout[1].shape = spec[1].shape
               /\ vout[1].dtype = spec[1].dtype
               /\ vout[1].minimum = spec[1].minimum[1]
               /\ vout[1].maximum = spec[1].maximum[1]
          [] spec[1].type = "Array" ->
               /\ vexc = "none"
               /\ vout[1].type = "dm_env.specs.Array"
               /\ vout[1].shape = spec[1].shape
               /\ vout[1].dtype = spec[1].dtype
          [] spec[1].type = "ObservationSpec" ->
               vexc = "ValueError" /\ vout = None

C12_Witness ==
    /\ vop = "to_dm_env"
    /\ spec[1].type = "DiscreteArray"
    /\ spec[1].num_values = Some(MaxNumValues)
    /\ vexc = "none"
    /\ vout[1].type = "dm_env.specs.DiscreteArray"

(* the gym space g is the one the claim names for the leaf spec sp *)
LeafSpace(sp, g) ==
    CASE sp.type = "DiscreteArray" ->
           /\ g.type = "Discrete"
           /\ g.n = sp.num_values[1]
           /\ g.start = 0
      [] sp.type = "BoundedArray" ->
           /\ g.type = "Box"
           /\ g.shape = sp.shape
           /\ g.dtype = sp.dtype
           /\ g.low_shape = sp.shape
           /\ g.high_shape = sp.shape
           /\ DOMAIN g.low = Indices(sp.shape)
           /\ DOMAIN g.high = Indices(sp.shape)
           /\ \A idx \in Indices(sp.shape) :
                 /\ g.low[idx] = Finite(BoundAt(sp.minimum, sp, idx))
                 /\ g.high[idx] = Finite(BoundAt(sp.maximum, sp, idx))
      [] sp.type = "Array" ->
           /\ g.type = "Box"
           /\ g.shape = sp.shape
           /\ g.dtype = sp.dtype
           /\ DOMAIN g.low = Indices(sp.shape)
           /\ DOMAIN g.high = Indices(sp.shape)
           /\ \A idx \in Indices(sp.shape) :
                 g.low[idx] = NegInf /\ g.high[idx] = PosInf

(* C13: jumanji_specs_to_gym_spaces never raises: a DiscreteArray becomes
   Discrete(n = num_values) starting at 0, a BoundedArray a Box whose low and
   high are the bounds broadcast to the spec's shape, an Array an unbounded
   Box of the same shape, and a nested spec a Dict with exactly one entry per
   attribute that is itself a spec, converted in the same way. *)
C13_ToGymSpaces ==
    (vop = "to_gym") =>
        /\ vexc = "none"
        /\ IF IsLeaf(spec[1]) THEN LeafSpace(spec[1], vout[1])
           ELSE /\ vout[1].type = "Dict"
                /\ DOMAIN vout[1].spaces = {"board_obs", "action_mask"}
                /\ LeafSpace(spec[1].board_obs, vout[1].spaces["board_obs"])
                /\ LeafSpace(spec[1].action_mask, vout[1].spaces["action_mask"])

C13_Witness ==
    /\ vop = "to_gym"
    /\ spec[1].type = "ObservationSpec"
    /\ spec[1].board_obs.type = "BoundedArray"
    /\ spec[1].board_obs.shape = <<MaxDim>>
    /\ spec[1].action_mask.type = "Array"
    /\ vexc = "none"
    /\ vout[1].spaces["board_obs"].low[<<MaxDim>>] = Finite(0)
    /\ vout[1].spaces["board_obs"].high[<<1>>] = Finite(MaxBound)
    /\ vout[1].spaces["action_mask"].low[CHOOSE idx \in Indices(spec[1].action_mask.shape) : TRUE] = NegInf

----------------------------------------------------------------------------
(* Connector *)

(* C14: Connector.step returns a next state and a timestep; an agent is done
   when it cannot move, the horizon is reached or it is connected, and the
   timestep is LAST exactly when all agents are done, so in particular a step
   returns a MID or LAST timestep and returns LAST when the horizon is
   reached. *)
C14_ConnectorTermination ==
    (kind = "connector" /\ op = "step") =>
        /\ ret # None
        /\ ret[1].step_type \in {MID, LAST}
        /\ (in_state[1].step + 1 >= time_limit) => ret[1].step_type = LAST

----------------------------------------------------------------------------
(* JumanjiToGymWrapper seeding *)

(* a wrapper freshly constructed with the seed, after the calls ops *)
RECURSIVE FreshRun(_, _)
FreshRun(seed, ops) ==
    IF ops = <<>>
    THEN [w |-> JumanjiToGymWrapper_init(seed), ret |-> None]
    ELSE LET prev == FreshRun(seed, SubSeq(ops, 1, Len(ops) - 1))
             o == ops[Len(ops)]
         IN IF o.op = "reset"
            THEN LET r == JumanjiToGymWrapper_reset(prev.w, None, o.return_info)
                 IN [w |-> r.w, ret |-> Some(r.ret)]
            ELSE LET r == JumanjiToGymWrapper_step(prev.w, o.action)
                 IN [w |-> r.w, ret |-> Some(r.ret)]

SeededLikeFresh ==
    (kind = "gym") =>
        /\ LET f == FreshRun(trace.seed, trace.ops)
           IN key = f.w.key /\ state = f.w.state /\ ret = f.ret
        /\ (op = "reset" /\ seed_arg # None) =>
              /\ in_key = Some(SplitFirst(PRNGKey(seed_arg[1])))
              /\ key = SplitSecond(PRNGKey(seed_arg[1]))

(* C15: reset(seed = s) re-initialises the wrapper's key from s, so that the
   wrapper's key, state and every returned observation, reward and terminated
   flag from then on equal those of a wrapper freshly constructed with seed s
   and given the same calls; a reset without a seed takes its key from the
   wrapper's key chain and never reuses the key of the reset before it. *)
C15_GymSeeding ==
    /\ []SeededLikeFresh
    /\ [][(kind = "gym" /\ op' = "reset" /\ seed_arg' = None /\ in_key # None)
            => in_key' # in_key]_vars

C15_Witness ==
    /\ kind = "gym"
    /\ op = "step"
    /\ seed_arg # None
    /\ Len(key) = 2
    /\ Len(trace.ops) = MaxTrace
    /\ trace.ops[1].op = "reset"
    /\ ret[1].terminated
    /\ ret[1].reward > 0

----------------------------------------------------------------------------
(* VmapWrapper *)

(* C16: VmapWrapper.reset on a batch of keys returns as many states and
   timesteps as the key has entries along its first axis, the i-th being the
   wrapped environment's reset of the i-th key; VmapWrapper.step returns at
   every index i the wrapped environment's step of the i-th state with the
   i-th action, whatever the other indices hold. *)
C16_VmapIndexwise ==
    (kind = "vmap" /\ exc = "none") =>
        /\ (op = "reset") =>
              /\ BatchSize(state[1]) = Len(in_key[1])
              /\ Len(ret[1].step_type) = Len(in_key[1])
              /\ \A i \in 1..Len(in_key[1]) :
                    /\ StateAt(state[1], i) = EnvReset(in_key[1][i]).state
                    /\ TimeStepAt(ret[1], i) = EnvReset(in_key[1][i]).timestep
        /\ (op = "step") =>
              /\ BatchSize(state[1]) = BatchSize(in_state[1])
              /\ Len(ret[1].step_type) = BatchSize(in_state[1])
              /\ \A i \in 1..BatchSize(in_state[1]) :
                    LET r == EnvStep(StateAt(in_state[1], i), in_action[1][i])
                    IN /\ StateAt(state[1], i) = r.state
                       /\ TimeStepAt(ret[1], i) = r.timestep

C16_Witness ==
    /\ kind = "vmap"
    /\ op = "step"
    /\ exc = "none"
    /\ BatchSize(state[1]) = MaxEnvs
    /\ state[1].key[1] # state[1].key[MaxEnvs]
    /\ ret[1].step_type[1] = LAST
    /\ ret[1].step_type[MaxEnvs] = MID

----------------------------------------------------------------------------
(* CMST generator, checked under SpecEnvs *)

GeneratorReturned == kind = "cmst" /\ op = "call" /\ exc = "none"

(* C17: the edges returned by SplitRandomGenerator have shape
   (num_agents, num_edges, 2) and are the same list for every agent; for every
   edge (u, v), node_edges[u, v] = v and node_edges[v, u] = u; and the graph
   on all num_nodes nodes with these edges is connected. *)
C17_GeneratorGraph ==
    GeneratorReturned =>
        LET p == state[1]
            d == ret[1]
        IN /\ DOMAIN d.edges = 0..(p.num_agents - 1)
           /\ \A a \in DOMAIN d.edges :
                 /\ DOMAIN d.edges[a] = 0..(p.num_edges - 1)
                 /\ \A i \in DOMAIN d.edges[a] : Len(d.edges[a][i]) = 2
                 /\ d.edges[a] = d.edges[0]
           /\ \A i \in DOMAIN d.edges[0] :
                 LET e == d.edges[0][i]
                 IN /\ d.node_edges[e[1]][e[2]] = e[2]
                    /\ d.node_edges[e[2]][e[1]] = e[1]
           /\ Reach({0}, {d.edges[0][i] : i \in DOMAIN d.edges[0]})
                 = 0..(p.num_nodes - 1)

C17_Witness ==
    /\ GeneratorReturned
    /\ state[1].num_agents = MaxGenAgents
    /\ state[1].num_nodes = MaxNodes
    /\ state[1].num_edges = MaxEdges
    /\ ret[1].edges[MaxGenAgents - 1][0] = <<0, 1>>
    /\ ret[1].node_edges[1][0] = 0

(* the nodes chosen for agent a *)
Chosen(d, a) == {d.nodes_to_connect[a][i] : i \in DOMAIN d.nodes_to_connect[a]}

ArrayMin(f) == CHOOSE m \in {f[i] : i \in DOMAIN f} : \A i \in DOMAIN f : m <= f[i]
ArrayMax(f) == CHOOSE m \in {f[i] : i \in DOMAIN f} : \A i \in DOMAIN f : f[i] <= m

(* what the claim says of every agent's entries *)
AgentData(p, walk, d) ==
    \A a \in 0..(p.num_agents - 1) :
        /\ DOMAIN d.nodes_to_connect[a] = 0..(p.num_nodes_per_agent - 1)
        /\ Cardinality(Chosen(d, a)) = p.num_nodes_per_agent
        /\ Chosen(d, a) \subseteq {walk.nodes_per_sub_graph[a][i] :
                                      i \in DOMAIN walk.nodes_per_sub_graph[a]}
        /\ \A u \in 0..(p.num_nodes - 1) :
              (d.node_types[u] = a) <=> (u \in Chosen(d, a))
        /\ d.agents_pos[a] = d.nodes_to_connect[a][0]
        /\ DOMAIN d.conn_nodes[a] = 0..(p.max_step - 1)
        /\ \A t \in DOMAIN d.conn_nodes[a] :
              d.conn_nodes[a][t] =
                 IF t = 0 THEN d.agents_pos[a] ELSE EMPTY_NODE
        /\ DOMAIN d.conn_nodes_index[a] = 0..(p.num_nodes - 1)
        /\ \A u \in DOMAIN d.conn_nodes_index[a] :
              d.conn_nodes_index[a][u] =
                 IF u = d.agents_pos[a] THEN u ELSE EMPTY_NODE

Unchosen(p, d) ==
    {u \in 0..(p.num_nodes - 1) :
        \A a \in 0..(p.num_agents - 1) : u \notin Chosen(d, a)}

(* C19 as stated: every agent's data is as above, node_types is the
   empty/utility value at the nodes chosen by no agent, and so the maximum of
   node_types is num_agents - 1 and its minimum is the utility value. *)
C19_AgentDataMinUtility ==
    GeneratorReturned =>
        /\ AgentData(state[1], in_state[1], ret[1])
        /\ \A u \in Unchosen(state[1], ret[1]) : ret[1].node_types[u] = EMPTY_NODE
        /\ ArrayMax(ret[1].node_types) = state[1].num_agents - 1
        /\ ArrayMin(ret[1].node_types) = UTILITY_NODE

(* C19 (amended): for every agent a, nodes_to_connect[a] holds
   num_nodes_per_agent distinct nodes of a's sub-graph, node_types is a at
   exactly those nodes and the empty value at the nodes chosen by no agent,
   agents_pos[a] = conn_nodes[a, 0] = nodes_to_connect[a, 0], the rest of
   conn_nodes[a] is empty, and conn_nodes_index[a] is empty except at that
   node, where it holds the node.  The maximum of node_types is
   num_agents - 1; its minimum is the utility value when some node is chosen
   by no agent, and 0 when the agents' nodes cover the whole graph. *)
C19_AgentData ==
    GeneratorReturned =>
        /\ AgentData(state[1], in_state[1], ret[1])
        /\ \A u \in Unchosen(state[1], ret[1]) : ret[1].node_types[u] = EMPTY_NODE
        /\ ArrayMax(ret[1].node_types) = state[1].num_agents - 1
        /\ ArrayMin(ret[1].node_types) =
              IF Unchosen(state[1], ret[1]) # {} THEN UTILITY_NODE ELSE 0

C19_Witness ==
    /\ GeneratorReturned
    /\ state[1].num_agents = MaxGenAgents
    /\ state[1].num_nodes_per_agent = MaxNodesPerAgent
    /\ state[1].num_nodes = MaxGenAgents * MaxNodesPerAgent
    /\ Unchosen(state[1], ret[1]) = {}
    /\ ArrayMin(ret[1].node_types) = 0
    /\ ret[1].agents_pos[0] > ret[1].nodes_to_connect[0][1]

----------------------------------------------------------------------------
(* Maze, checked under SpecEnvs *)

(* the cell next to position in the direction of the action *)
Neighbour(position, action) ==
    <<position[1] + (IF action = 2 THEN 1 ELSE IF action = 0 THEN -1 ELSE 0),
      position[2] + (IF action = 1 THEN 1 ELSE IF action = 3 THEN -1 ELSE 0)>>

(* C18: within the step limit, the timestep of reset and of every step that
   leaves the agent off the target has reward 0 and is not LAST; the step on
   which the agent's position becomes the target position returns reward 1
   and LAST; a step into a wall leaves the position unchanged and returns
   reward 0 and MID. *)
C18_MazeReward ==
    (kind = "maze" /\ op \in {"reset", "step"}) =>
        /\ (op = "reset") => (ret[1].reward = 0 /\ ret[1].step_type # LAST)
        /\ (op = "step") =>
              /\ in_state[1].agent_position # in_state[1].target_position
              /\ IF state[1].agent_position = state[1].target_position
                 THEN ret[1].reward = 1 /\ ret[1].step_type = LAST
                 ELSE ret[1].reward = 0 /\ ret[1].step_type = MID
              /\ (Neighbour(in_state[1].agent_position, in_action[1])
                     \in state[1].walls) =>
                    /\ state[1].agent_position = in_state[1].agent_position
                    /\ ret[1].reward = 0
                    /\ ret[1].step_type = MID
              /\ (/\ Neighbour(in_state[1].agent_position, in_action[1]) \in Cells
                  /\ Neighbour(in_state[1].agent_position, in_action[1])
                        \notin state[1].walls) =>
                    state[1].agent_position =
                        Neighbour(in_state[1].agent_position, in_action[1])

C18_Witness ==
    /\ kind = "maze"
    /\ op = "step"
    /\ state[1].step_count >= 2
    /\ state[1].walls # {}
    /\ state[1].agent_position = state[1].target_position
    /\ ret[1].reward = 1
    /\ ret[1].step_type = LAST

====
